---------------------------- MODULE Spec2Model ----------------------------
(***************************************************************************)
(* The host-call core of the jit: arbitrator/jit/src/gostack.rs (GoStack,  *)
(* WasmEnv, TimeoutInfo, TimeoutState) and arbitrator/jit/src/runtime.rs   *)
(* (the host functions of the Go runtime).                                 *)
(*                                                                         *)
(* Machine integers keep their width.  A u8 is a number in 0..255, a u32   *)
(* is a sequence of 4 bytes and a u64 a sequence of 8 bytes, least         *)
(* significant byte first: the layout the guest's linear memory uses, so   *)
(* that a store writes the bytes of the value and a load reads them back.  *)
(***************************************************************************)
EXTENDS Integers, Sequences, FiniteSets, TLC

VARIABLES
    build,          \* "debug" | "release": whether `+`/`+=` overflow panics or wraps
    memory,         \* WasmEnv.memory: "None" until bound, then "Some"
    data,           \* the bytes of the guest's linear memory (non-zero bytes only)
    time,           \* WasmEnv.time (u64, nanoseconds)
    time_interval,  \* WasmEnv.time_interval (u64)
    timeouts,       \* WasmEnv.timeouts: [times, pending_ids, next_id]
    rng,            \* WasmEnv.rng: how many outputs of the Pcg32 stream are consumed
    stdout,         \* what the handlers have written to the host's output stream
    stderr,         \* what the handlers have written to the host's error stream
    status,         \* "running" | "exited" (Escape::Exit returned) | "panicked"
    escape,         \* the Escape the last host call returned: <<>> or <<"Exit", code>>
    reported,       \* the clock values the guest has read back from clock queries
    host,           \* the host machine's own wall clock reading (never an input)
    calls,          \* number of host calls made so far
    last,           \* the host call made last: its name and its arguments
    twin,           \* a second, independent session (used by SpecPair only)
    threads         \* the environment's lock and the host calls in progress at
                    \* each call site (used by SpecSites only)

vars == <<build, memory, data, time, time_interval, timeouts, rng, stdout,
          stderr, status, escape, reported, host, calls, last, twin, threads>>

-----------------------------------------------------------------------------
(* Bounds of the model.                                                    *)

\* Host calls per session.
MaxCalls == 3

\* Size of the guest's linear memory, in wasm pages.
MemPages == 1

-----------------------------------------------------------------------------
(* Fixed-width unsigned arithmetic on little-endian byte sequences.        *)

\* The w low-order bytes of the number n (n below 2^31).
NatToBytes(n, w) ==
    [i \in 1..w |-> IF i = 1 THEN n % 256
                    ELSE IF i = 2 THEN (n \div 256) % 256
                    ELSE IF i = 3 THEN (n \div 65536) % 256
                    ELSE IF i = 4 THEN n \div 16777216
                    ELSE 0]

U32(n) == NatToBytes(n, 4)
U64(n) == NatToBytes(n, 8)

U32_MAX == <<255, 255, 255, 255>>
U64_MAX == <<255, 255, 255, 255, 255, 255, 255, 255>>

\* `x as u64` / `x.into()` from u32: zero extension.
ZeroExtend(b, w) == b \o [i \in 1..(w - Len(b)) |-> 0]

\* `x as u32`, `x as u8` from a wider type: the low-order bytes.
Truncate(b, w) == SubSeq(b, 1, w)

\* u32::try_from(x: u64): Ok exactly when the high four bytes are zero.
FitsU32(b) == \A i \in 5..8 : b[i] = 0

RECURSIVE AddBytes(_, _, _)
\* a + b + c for equally long a and b: Len(a) sum bytes, then the carry out.
AddBytes(a, b, c) ==
    IF a = <<>> THEN <<c>>
    ELSE LET s == a[1] + b[1] + c
         IN  <<s % 256>> \o AddBytes(Tail(a), Tail(b), s \div 256)

RECURSIVE MulBytes(_, _, _)
\* a * k + c for a number k: Len(a) product bytes, then the carry out.
MulBytes(a, k, c) ==
    IF a = <<>> THEN <<c>>
    ELSE LET p == a[1] * k + c
         IN  <<p % 256>> \o MulBytes(Tail(a), k, p \div 256)

RECURSIVE QuoRem(_, _)
\* Long division of a by a number d, most significant byte first.
QuoRem(a, d) ==
    IF a = <<>> THEN [q |-> <<>>, r |-> 0]
    ELSE LET hi == QuoRem(Tail(a), d)
             n  == hi.r * 256 + a[1]
         IN  [q |-> <<n \div d>> \o hi.q, r |-> n % d]

\* Ord::cmp of two unsigned integers of one width: the most significant
\* byte in which they differ decides.
CmpBytes(a, b) ==
    IF a = b THEN "Equal"
    ELSE LET top == CHOOSE i \in 1..Len(a) :
                        /\ a[i] # b[i]
                        /\ \A j \in (i + 1)..Len(a) : a[j] = b[j]
         IN  IF a[top] < b[top] THEN "Less" ELSE "Greater"

Less(a, b) == CmpBytes(a, b) = "Less"

\* The sum without its carry: wrapping_add.
WrappingAdd(a, b) == SubSeq(AddBytes(a, b, 0), 1, Len(a))

\* Rust's `a + b` and `a += b`: with overflow checks (debug) an overflow
\* panics, without them (release) the sum wraps.
CheckedAdd(bld, a, b) ==
    LET sum == AddBytes(a, b, 0)
    IN  IF sum[Len(a) + 1] # 0 /\ bld = "debug"
        THEN [ok |-> FALSE, val |-> a]
        ELSE [ok |-> TRUE,  val |-> SubSeq(sum, 1, Len(a))]

\* u64::saturating_add.
saturating_add(a, b) ==
    LET sum == AddBytes(a, b, 0)
    IN  IF sum[Len(a) + 1] # 0 THEN [i \in 1..Len(a) |-> 255]
        ELSE SubSeq(sum, 1, Len(a))

\* u64::saturating_mul by a number k.
saturating_mul(a, k) ==
    LET p == MulBytes(a, k, 0)
    IN  IF p[Len(a) + 1] # 0 THEN [i \in 1..Len(a) |-> 255]
        ELSE SubSeq(p, 1, Len(a))

\* x / 1_000_000_000 and x % 1_000_000_000 on a u64, by three divisions by
\* 1000 (the quotients and remainders of the one division).
Div1e9(x) == QuoRem(QuoRem(QuoRem(x, 1000).q, 1000).q, 1000).q
Rem1e9(x) ==
    LET d1 == QuoRem(x, 1000)
        d2 == QuoRem(d1.q, 1000)
        d3 == QuoRem(d2.q, 1000)
    IN  NatToBytes(d1.r + 1000 * d2.r + 1000000 * d3.r, Len(x))

\* x * 1_000_000_000 + y on u64 values (wrapping), for reading a split clock.
Join1e9(x, y) ==
    LET m1 == SubSeq(MulBytes(x, 1000, 0), 1, 8)
        m2 == SubSeq(MulBytes(m1, 1000, 0), 1, 8)
        m3 == SubSeq(MulBytes(m2, 1000, 0), 1, 8)
    IN  WrappingAdd(m3, y)


\* a - b (wrapping), as a + ~b + 1.
WrappingSub(a, b) ==
    SubSeq(AddBytes(a, [i \in 1..Len(a) |-> 255 - b[i]], 1), 1, Len(a))

\* `x >>= 8` on a u32.
ShiftRight8(b) == Tail(b) \o <<0>>

\* The number a small u32 stands for (its top byte below 128).
ToNat(b) == b[1] + 256 * b[2] + 65536 * b[3] + 16777216 * b[4]

-----------------------------------------------------------------------------
(* The guest's linear memory (wasmer::Memory).  `data` maps the addresses  *)
(* (u32) that hold a non-zero byte to that byte; every other byte of the   *)
(* memory is zero, as in a fresh wasm memory.                              *)


\* WasmPtr::deref(&memory) is Some, and a slice ptr..ptr+size is inside the
\* memory, exactly when ptr + size <= the size of the memory.
InBounds(ptr, size) ==
    LET end   == AddBytes(ptr, size, 0)
        pages == end[3] + 256 * end[4] + 65536 * end[5]
    IN  \/ pages < MemPages
        \/ pages = MemPages /\ end[1] = 0 /\ end[2] = 0

EmptyData == [a \in {} |-> 0]

Load(d, a) == IF a \in DOMAIN d THEN d[a] ELSE 0

Store(d, a, v) ==
    IF v = 0 THEN [x \in (DOMAIN d) \ {a} |-> d[x]]
    ELSE [x \in (DOMAIN d) \cup {a} |-> IF x = a THEN v ELSE d[x]]

\* The address i bytes after ptr, inside one in-bounds cell or slice.
PtrAdd(ptr, i) ==
    IF ptr[1] + i < 256 THEN [ptr EXCEPT ![1] = @ + i] ELSE WrappingAdd(ptr, U32(i))

LoadBytes(d, ptr, n) ==
    IF n = 0 THEN <<>> ELSE [i \in 1..n |-> Load(d, PtrAdd(ptr, i - 1))]

StoreBytes(d, ptr, b) ==
    LET cell  == [i \in 1..Len(b) |-> PtrAdd(ptr, i - 1)]
        cells == {cell[i] : i \in 1..Len(b)}
        set   == {cell[i] : i \in {j \in 1..Len(b) : b[j] # 0}}
    IN  [a \in ((DOMAIN d) \ cells) \cup set |->
            IF a \in cells THEN b[CHOOSE i \in 1..Len(b) : cell[i] = a] ELSE d[a]]

-----------------------------------------------------------------------------
(* A session: the WasmEnv behind the WasmEnvArc, the guest memory it is    *)
(* bound to, and what the session has shown the outside.  The handlers     *)
(* below are functions from the session before a host call to the session  *)
(* after it.                                                               *)

\* A panic (unwrap on None, expect on Err, an overflow check, a slice index
\* out of range): the host call does not return and nothing runs after it.
Panic(s) == [s EXCEPT !.status = "panicked"]

Failed == [ok |-> FALSE, val |-> <<>>]

\* GoStack::new_sans_env: clone the memory handle out of the environment.
GoStack_new_sans_env(s) == IF s.memory = "None" THEN Panic(s) ELSE s

\* GoStack::new: the GoStack, then the guard of the environment.
GoStack_new(s) == GoStack_new_sans_env(s)

\* A faulty variant of offset: the slots are one byte apart.
offset_unscaled(bld, start, arg) == CheckedAdd(bld, start, U32(arg + 1))

\* GoStack::offset: self.start + (arg + 1) * 8, in u32.
offset(bld, start, arg) == CheckedAdd(bld, start, U32((arg + 1) * 8))

read_u8_ptr(s, ptr) ==
    IF InBounds(ptr, U32(1)) THEN [ok |-> TRUE, val |-> Load(s.data, ptr)]
    ELSE Failed

read_u32_ptr(s, ptr) ==
    IF InBounds(ptr, U32(4)) THEN [ok |-> TRUE, val |-> LoadBytes(s.data, ptr, 4)]
    ELSE Failed

read_u64_ptr(s, ptr) ==
    IF InBounds(ptr, U32(8)) THEN [ok |-> TRUE, val |-> LoadBytes(s.data, ptr, 8)]
    ELSE Failed

read_u8(s, start, arg) ==
    LET o == offset(s.build, start, arg)
    IN  IF o.ok THEN read_u8_ptr(s, o.val) ELSE Failed

read_u32(s, start, arg) ==
    LET o == offset(s.build, start, arg)
    IN  IF o.ok THEN read_u32_ptr(s, o.val) ELSE Failed

read_u64(s, start, arg) ==
    LET o == offset(s.build, start, arg)
    IN  IF o.ok THEN read_u64_ptr(s, o.val) ELSE Failed

write_u8_ptr(s, ptr, x) ==
    IF s.status # "running" THEN s
    ELSE IF InBounds(ptr, U32(1))
         THEN [s EXCEPT !.data = Store(@, ptr, x)]
         ELSE Panic(s)

write_u32_ptr(s, ptr, x) ==
    IF s.status # "running" THEN s
    ELSE IF InBounds(ptr, U32(4))
         THEN [s EXCEPT !.data = StoreBytes(@, ptr, x)]
         ELSE Panic(s)

write_u64_ptr(s, ptr, x) ==
    IF s.status # "running" THEN s
    ELSE IF InBounds(ptr, U32(8))
         THEN [s EXCEPT !.data = StoreBytes(@, ptr, x)]
         ELSE Panic(s)

write_u8(s, start, arg, x) ==
    LET o == offset(s.build, start, arg)
    IN  IF s.status # "running" THEN s
        ELSE IF o.ok THEN write_u8_ptr(s, o.val, x) ELSE Panic(s)

write_u32(s, start, arg, x) ==
    LET o == offset(s.build, start, arg)
    IN  IF s.status # "running" THEN s
        ELSE IF o.ok THEN write_u32_ptr(s, o.val, x) ELSE Panic(s)

write_u64(s, start, arg, x) ==
    LET o == offset(s.build, start, arg)
    IN  IF s.status # "running" THEN s
        ELSE IF o.ok THEN write_u64_ptr(s, o.val, x) ELSE Panic(s)

\* GoStack::read_slice: both conversions to u32 must succeed, and the slice
\* index ptr..ptr+len must lie inside the memory.
read_slice(s, ptr, len) ==
    IF FitsU32(ptr) /\ FitsU32(len) /\ InBounds(Truncate(ptr, 4), Truncate(len, 4))
    THEN [ok |-> TRUE,
          val |-> LoadBytes(s.data, Truncate(ptr, 4), ToNat(Truncate(len, 4)))]
    ELSE Failed

\* GoStack::write_slice: the pointer must be a u32, the end ptr + src.len()
\* is a u32 sum, and MemoryView::subarray(ptr, end) must be a range of the
\* memory.  (A wrapped end below ptr would need a source longer than
\* 2^32 bytes minus the size of the memory; it is no range of the memory.)
write_slice(s, ptr, src) ==
    IF ~FitsU32(ptr) THEN Panic(s)
    ELSE LET start == Truncate(ptr, 4)
             end   == CheckedAdd(s.build, start, U32(Len(src)))
         IN  IF end.ok /\ ~Less(end.val, start) /\ InBounds(end.val, U32(0))
             THEN [s EXCEPT !.data = StoreBytes(@, start, src)]
             ELSE Panic(s)

-----------------------------------------------------------------------------
(* WasmEnv::default and the deterministic generator.                       *)

\* The outputs of Pcg32::new(0xcafef00dd15ea5e5, 0xa02bdbf7bb3c0a7), in the
\* order next_u32 returns them (each a u32).  `rng` counts the outputs
\* consumed, so the generator's state is its position in this stream.
Pcg32Stream ==
    << <<234, 148, 85, 40>>,  <<73, 163, 12, 25>>,   <<242, 47, 196, 203>>,
       <<83, 129, 80, 214>>,  <<47, 5, 168, 194>>,   <<95, 172, 85, 15>>,
       <<50, 62, 255, 214>>,  <<156, 104, 70, 79>>,  <<17, 166, 204, 100>>,
       <<91, 160, 122, 160>>, <<188, 92, 166, 85>>,  <<160, 98, 253, 202>> >>

\* RngCore::next_u32: the output at the generator's position.
next_u32(r) == Pcg32Stream[r + 1]

\* TimeoutState::default.
TimeoutState_default == [times |-> <<>>, pending_ids |-> {}, next_id |-> U32(0)]

\* A faulty variant of WasmEnv_default: the clock starts at the host
\* machine's wall clock instead of 0.
WasmEnv_default_wall_clock(bld, h) ==
    [build         |-> bld,
     memory        |-> "None",
     data          |-> EmptyData,
     time          |-> h,
     time_interval |-> U64(10000000),
     timeouts      |-> TimeoutState_default,
     rng           |-> 0,
     stdout        |-> <<>>,
     stderr        |-> <<>>,
     status        |-> "running",
     escape        |-> <<>>,
     reported      |-> <<>>,
     host          |-> h]

\* WasmEnv::default, with a fresh guest memory beside it.  `h` is the host
\* machine's wall clock when the session starts and `bld` the build.
WasmEnv_default(bld, h) ==
    [build         |-> bld,
     memory        |-> "None",
     data          |-> EmptyData,
     time          |-> U64(0),
     time_interval |-> U64(10000000),
     timeouts      |-> TimeoutState_default,
     rng           |-> 0,
     stdout        |-> <<>>,
     stderr        |-> <<>>,
     status        |-> "running",
     escape        |-> <<>>,
     reported      |-> <<>>,
     host          |-> h]

-----------------------------------------------------------------------------
(* TimeoutInfo's order and the BinaryHeap of TimeoutState.  `times` keeps  *)
(* the entries in the order they were pushed; pop takes the greatest       *)
(* entry by Ord::cmp, as BinaryHeap::pop does.                             *)

\* Ordering::then_with.
then_with(first, second) == IF first # "Equal" THEN first ELSE second

\* A faulty variant of TimeoutInfo_cmp: the natural order, self against
\* other, under which the heap's greatest entry is the latest timer.
TimeoutInfo_cmp_natural(self, other) ==
    then_with(CmpBytes(self.time, other.time), CmpBytes(self.id, other.id))

\* impl Ord for TimeoutInfo: cmp(self, other).
TimeoutInfo_cmp(self, other) ==
    then_with(CmpBytes(other.time, self.time), CmpBytes(other.id, self.id))

\* The position in heap h of the entry BinaryHeap::pop returns: one that no
\* other entry is greater than (the first such position, for equal entries).
PopIndex(h) ==
    CHOOSE i \in 1..Len(h) :
        /\ \A j \in 1..Len(h) : TimeoutInfo_cmp(h[i], h[j]) # "Less"
        /\ \A j \in 1..(i - 1) : TimeoutInfo_cmp(h[j], h[i]) = "Less"

RemoveAt(h, i) == SubSeq(h, 1, i - 1) \o SubSeq(h, i + 1, Len(h))

RECURSIVE PopAll(_)
\* The entries of heap h in the order repeated BinaryHeap::pop yields them.
PopAll(h) ==
    IF h = <<>> THEN <<>>
    ELSE <<h[PopIndex(h)]>> \o PopAll(RemoveAt(h, PopIndex(h)))

-----------------------------------------------------------------------------
(* The host functions of runtime.rs.                                       *)

\* go_debug: println!("go debug: {x}").
go_debug(s, x) ==
    [s EXCEPT !.stdout = Append(@, [kind |-> "go debug", val |-> x])]

\* reset_memory_data_view: nothing.
reset_memory_data_view(s, x) == s

\* wasm_exit: Err(Escape::Exit(sp.read_u32(0))).
wasm_exit(s0, sp) ==
    LET s    == GoStack_new_sans_env(s0)
        code == read_u32(s, sp, 0)
    IN  IF s.status # "running" THEN s
        ELSE IF ~code.ok THEN Panic(s)
        ELSE [s EXCEPT !.status = "exited", !.escape = <<"Exit", code.val>>]

\* wasm_write: the bytes at ptr go to stderr when fd is 2, else to stdout.
wasm_write(s0, sp) ==
    LET s   == GoStack_new_sans_env(s0)
        fd  == read_u64(s, sp, 0)
        ptr == read_u64(s, sp, 1)
        len == read_u32(s, sp, 2)
        buf == read_slice(s, ptr.val, ZeroExtend(len.val, 8))
    IN  IF s.status # "running" THEN s
        ELSE IF ~fd.ok \/ ~ptr.ok \/ ~len.ok THEN Panic(s)
        ELSE IF ~buf.ok THEN Panic(s)
        ELSE IF fd.val = U64(2)
             THEN [s EXCEPT !.stderr = Append(@, [kind |-> "write", val |-> buf.val])]
             ELSE [s EXCEPT !.stdout = Append(@, [kind |-> "write", val |-> buf.val])]

\* env.time += env.time_interval, the first statement of each clock query.
advance_time(s) ==
    LET t == CheckedAdd(s.build, s.time, s.time_interval)
    IN  IF s.status # "running" THEN s
        ELSE IF ~t.ok THEN Panic(s)
        ELSE [s EXCEPT !.time = t.val]

\* nanotime1.
nanotime1(s0, sp) ==
    LET s == advance_time(GoStack_new(s0))
    IN  write_u64(s, sp, 0, s.time)

\* A faulty variant of walltime: the remainder is cut to 16 bits.
walltime_remainder_u16(s0, sp) ==
    LET s  == advance_time(GoStack_new(s0))
        s1 == write_u64(s, sp, 0, Div1e9(s.time))
    IN  write_u32(s1, sp, 1, ZeroExtend(Truncate(Rem1e9(s.time), 2), 4))

\* walltime: seconds to slot 0, the remainder `as u32` to slot 1.
walltime(s0, sp) ==
    LET s  == advance_time(GoStack_new(s0))
        s1 == write_u64(s, sp, 0, Div1e9(s.time))
    IN  write_u32(s1, sp, 1, Truncate(Rem1e9(s.time), 4))

\* walltime1: seconds to slot 0, the remainder as a u64 to slot 1.
walltime1(s0, sp) ==
    LET s  == advance_time(GoStack_new(s0))
        s1 == write_u64(s, sp, 0, Div1e9(s.time))
    IN  write_u64(s1, sp, 1, Rem1e9(s.time))

\* A faulty variant of fire_time: wrapping instead of saturating arithmetic.
fire_time_wrapping(delay, now) ==
    WrappingAdd(SubSeq(MulBytes(delay, 1000000, 0), 1, Len(delay)), now)

\* The fire time schedule_timeout_event computes from the delay in slot 0.
fire_time(delay, now) == saturating_add(saturating_mul(delay, 1000000), now)

\* A faulty variant of schedule_timeout_event: it advances the clock as a
\* clock query does before it computes the fire time.
schedule_timeout_event_ticks(s0, sp) ==
    LET s     == advance_time(GoStack_new(s0))
        delay == read_u64(s, sp, 0)
        id    == s.timeouts.next_id
        next  == CheckedAdd(s.build, id, U32(1))
        s1    == [s EXCEPT !.timeouts =
                     [next_id     |-> next.val,
                      times       |-> Append(@.times,
                                        [time |-> fire_time(delay.val, s.time),
                                         id   |-> id]),
                      pending_ids |-> @.pending_ids \cup {id}]]
    IN  IF s.status # "running" THEN s
        ELSE IF ~delay.ok THEN Panic(s)
        ELSE IF ~next.ok THEN Panic(s)
        ELSE write_u32(s1, sp, 1, id)

\* schedule_timeout_event.
schedule_timeout_event(s0, sp) ==
    LET s     == GoStack_new(s0)
        delay == read_u64(s, sp, 0)
        id    == s.timeouts.next_id
        next  == CheckedAdd(s.build, id, U32(1))
        s1    == [s EXCEPT !.timeouts =
                     [next_id     |-> next.val,
                      times       |-> Append(@.times,
                                        [time |-> fire_time(delay.val, s.time),
                                         id   |-> id]),
                      pending_ids |-> @.pending_ids \cup {id}]]
    IN  IF s.status # "running" THEN s
        ELSE IF ~delay.ok THEN Panic(s)
        ELSE IF ~next.ok THEN Panic(s)
        ELSE write_u32(s1, sp, 1, id)

\* A faulty variant of clear_timeout_event: it also takes the id's entry out
\* of the heap.
clear_timeout_event_eager(s0, sp) ==
    LET s  == GoStack_new(s0)
        id == read_u32(s, sp, 0)
    IN  IF s.status # "running" THEN s
        ELSE IF ~id.ok THEN Panic(s)
        ELSE IF id.val \in s.timeouts.pending_ids
             THEN [s EXCEPT !.timeouts.pending_ids = @ \ {id.val},
                            !.timeouts.times =
                                SelectSeq(@, LAMBDA e : e.id # id.val)]
             ELSE [s EXCEPT !.stderr =
                      Append(@, [kind |-> "clear not pending", val |-> id.val])]

\* A faulty variant of clear_timeout_event: an id that is not pending is an
\* error that panics.
clear_timeout_event_strict(s0, sp) ==
    LET s  == GoStack_new(s0)
        id == read_u32(s, sp, 0)
    IN  IF s.status # "running" THEN s
        ELSE IF ~id.ok THEN Panic(s)
        ELSE IF id.val \in s.timeouts.pending_ids
             THEN [s EXCEPT !.timeouts.pending_ids = @ \ {id.val}]
             ELSE Panic(s)

\* clear_timeout_event: BTreeSet::remove, and a line on stderr when the id
\* was not pending.
clear_timeout_event(s0, sp) ==
    LET s  == GoStack_new(s0)
        id == read_u32(s, sp, 0)
    IN  IF s.status # "running" THEN s
        ELSE IF ~id.ok THEN Panic(s)
        ELSE IF id.val \in s.timeouts.pending_ids
             THEN [s EXCEPT !.timeouts.pending_ids = @ \ {id.val}]
             ELSE [s EXCEPT !.stderr =
                      Append(@, [kind |-> "clear not pending", val |-> id.val])]

RECURSIVE fill_words(_, _, _)
\* get_random_data's `while len >= 4` loop; yields the session, ptr and len
\* the loop ends with.
fill_words(s, ptr, len) ==
    IF s.status # "running" \/ Less(len, U64(4))
    THEN [s |-> s, ptr |-> ptr, len |-> len]
    ELSE LET drawn == [s EXCEPT !.rng = @ + 1]
             s1    == write_u32_ptr(drawn, ptr, next_u32(s.rng))
             p1    == CheckedAdd(s.build, ptr, U32(4))
         IN  IF s1.status # "running" THEN [s |-> s1, ptr |-> ptr, len |-> len]
             ELSE IF ~p1.ok THEN [s |-> Panic(s1), ptr |-> ptr, len |-> len]
             ELSE fill_words(s1, p1.val, WrappingSub(len, U64(4)))

RECURSIVE fill_rest_no_shift(_, _, _, _)
\* A faulty variant of fill_rest: `rem >>= 8` is missing, so every trailing
\* byte is the low byte of rem.
fill_rest_no_shift(s, ptr, rem, n) ==
    IF s.status # "running" \/ n = 0 THEN s
    ELSE LET s1 == write_u8_ptr(s, ptr, Truncate(rem, 1)[1])
             p1 == CheckedAdd(s.build, ptr, U32(1))
         IN  IF s1.status # "running" THEN s1
             ELSE IF ~p1.ok THEN Panic(s1)
             ELSE fill_rest_no_shift(s1, p1.val, rem, n - 1)

RECURSIVE fill_rest(_, _, _, _)
\* get_random_data's `for _ in 0..len` loop over the bytes of rem.
fill_rest(s, ptr, rem, n) ==
    IF s.status # "running" \/ n = 0 THEN s
    ELSE LET s1 == write_u8_ptr(s, ptr, Truncate(rem, 1)[1])
             p1 == CheckedAdd(s.build, ptr, U32(1))
         IN  IF s1.status # "running" THEN s1
             ELSE IF ~p1.ok THEN Panic(s1)
             ELSE fill_rest(s1, p1.val, ShiftRight8(rem), n - 1)

\* get_random_data.
get_random_data(s0, sp) ==
    LET s    == GoStack_new(s0)
        ptr  == read_u64(s, sp, 0)
        len  == read_u64(s, sp, 1)
        w    == fill_words(s, Truncate(ptr.val, 4), len.val)
        rest == [w.s EXCEPT !.rng = @ + 1]
    IN  IF s.status # "running" THEN s
        ELSE IF ~ptr.ok THEN Panic(s)
        ELSE IF ~FitsU32(ptr.val) THEN Panic(s)
        ELSE IF ~len.ok THEN Panic(s)
        ELSE IF w.s.status # "running" THEN w.s
        ELSE IF w.len = U64(0) THEN w.s
        ELSE fill_rest(rest, w.ptr, next_u32(w.s.rng), w.len[1])

-----------------------------------------------------------------------------
(* The guest's side of a host call: it stores the arguments in the slots   *)
(* of its frame, calls, and loads the results from the slots.              *)

\* The address of slot `arg` of the frame at sp: sp + (arg + 1) * 8.
SlotAddr(sp, arg) == PtrAdd(sp, (arg + 1) * 8)

RECURSIVE GuestArgs(_, _, _, _)
\* The session after the guest has stored args[1], args[2], ... (each with
\* its own width) in the slots arg, arg + 1, ... of the frame at sp.  The guest
\* cannot store outside its memory: a frame out of bounds holds no arguments.
GuestArgs(s, sp, arg, args) ==
    IF args = <<>> \/ ~InBounds(SlotAddr(sp, arg), U32(8)) THEN s
    ELSE GuestArgs([s EXCEPT !.data = StoreBytes(@, SlotAddr(sp, arg), args[1])],
                   sp, arg + 1, Tail(args))

\* The clock value the guest finds in its frame after a clock query: the
\* u64 of slot 0 (nanotime1), or seconds and remainder joined (walltime:
\* remainder a u32; walltime1: remainder a u64).
ClockRead(s, sp, abi) ==
    LET slot0 == LoadBytes(s.data, SlotAddr(sp, 0), 8)
    IN  IF abi = "nanotime1" THEN slot0
        ELSE IF abi = "walltime"
             THEN Join1e9(slot0, ZeroExtend(LoadBytes(s.data, SlotAddr(sp, 1), 4), 8))
             ELSE Join1e9(slot0, LoadBytes(s.data, SlotAddr(sp, 1), 8))

\* A clock query that returned adds the value read to `reported`.
GuestReadsClock(s, sp, abi) ==
    IF s.status # "running" THEN s
    ELSE [s EXCEPT !.reported = Append(@, ClockRead(s, sp, abi))]

CallGoDebug(s, x) == go_debug(s, x)
CallResetMemoryDataView(s, x) == reset_memory_data_view(s, x)
CallWasmExit(s, sp, code) == wasm_exit(GuestArgs(s, sp, 0, <<code>>), sp)
CallWasmWrite(s, sp, fd, ptr, len) ==
    wasm_write(GuestArgs(s, sp, 0, <<fd, ptr, len>>), sp)
CallNanotime1(s, sp) == GuestReadsClock(nanotime1(s, sp), sp, "nanotime1")
CallWalltime(s, sp) == GuestReadsClock(walltime(s, sp), sp, "walltime")
CallWalltime1(s, sp) == GuestReadsClock(walltime1(s, sp), sp, "walltime1")
CallScheduleTimeoutEvent(s, sp, delay) ==
    schedule_timeout_event(GuestArgs(s, sp, 0, <<delay>>), sp)
CallClearTimeoutEvent(s, sp, id) ==
    clear_timeout_event(GuestArgs(s, sp, 0, <<id>>), sp)
CallGetRandomData(s, sp, ptr, len) ==
    get_random_data(GuestArgs(s, sp, 0, <<ptr, len>>), sp)

-----------------------------------------------------------------------------
(* The arguments the guest passes.                                         *)

\* The first address past the memory, less n.
FromEnd(n) == NatToBytes(MemPages * 65536 - n, 4)

\* A frame inside the memory, and one whose slots lie past its end.
GoodFrame == U32(64)
BadFrame  == FromEnd(8)
\* A buffer inside the memory, and one that ends 2 bytes past it.
Buffer    == U64(256)
BadBuffer == ZeroExtend(FromEnd(2), 8)

DebugArgs == {U32(7)}
ExitArgs  == {<<GoodFrame, U32(0)>>, <<GoodFrame, U32(3)>>, <<BadFrame, U32(3)>>}
WriteArgs == {<<GoodFrame, U64(1), Buffer, U32(3)>>,
              <<GoodFrame, U64(2), Buffer, U32(3)>>,
              <<GoodFrame, U64(1), BadBuffer, U32(3)>>}
ClockFrames == {GoodFrame, BadFrame}
Frames    == {GoodFrame}
\* Delays in milliseconds: none, 5 ms, one whose nanoseconds fit a u64 only
\* while the clock is low, and one whose nanoseconds do not fit.
Delays    == {U64(0), U64(5),
              <<237, 181, 160, 247, 198, 16, 0, 0>>,  \* 18446744073709
              U64_MAX}
TimerIds  == {U32(0), U32(1)}
FillArgs  == {<<GoodFrame, Buffer, U64(n)>> : n \in {0, 1, 4, 6, 7, 9}}
                 \cup {<<GoodFrame, BadBuffer, U64(6)>>}

-----------------------------------------------------------------------------
(* The state machine of one session.                                       *)

\* The session the variables hold.
Self ==
    [build         |-> build,
     memory        |-> memory,
     data          |-> data,
     time          |-> time,
     time_interval |-> time_interval,
     timeouts      |-> timeouts,
     rng           |-> rng,
     stdout        |-> stdout,
     stderr        |-> stderr,
     status        |-> status,
     escape        |-> escape,
     reported      |-> reported,
     host          |-> host]

\* The variables hold session r.
Holds(r) ==
    /\ build = r.build
    /\ memory = r.memory
    /\ data = r.data
    /\ time = r.time
    /\ time_interval = r.time_interval
    /\ timeouts = r.timeouts
    /\ rng = r.rng
    /\ stdout = r.stdout
    /\ stderr = r.stderr
    /\ status = r.status
    /\ escape = r.escape
    /\ reported = r.reported
    /\ host = r.host

\* The variables hold session r in the next state.
Becomes(r) ==
    /\ build' = r.build
    /\ memory' = r.memory
    /\ data' = r.data
    /\ time' = r.time
    /\ time_interval' = r.time_interval
    /\ timeouts' = r.timeouts
    /\ rng' = r.rng
    /\ stdout' = r.stdout
    /\ stderr' = r.stderr
    /\ status' = r.status
    /\ escape' = r.escape
    /\ reported' = r.reported
    /\ host' = r.host

Builds == {"debug", "release"}

\* No host call yet.
NoCall == [op |-> "none", args |-> <<>>]

\* The lock free and no call site: host calls run one at a time.
NoSites == [lock |-> 0, site |-> <<>>]

Init ==
    /\ \E bld \in Builds : Holds(WasmEnv_default(bld, U64(1667000000)))
    /\ calls = 0
    /\ last = NoCall
    /\ twin = WasmEnv_default(build, U64(1667000000))
    /\ threads = NoSites

\* One host call of a running session takes it to session r.
Call(op, args, after) ==
    /\ status = "running"
    /\ calls < MaxCalls
    /\ \E r \in {after} : Becomes(r)
    /\ calls' = calls + 1
    /\ last' = [op |-> op, args |-> args]
    /\ twin' = twin
    /\ threads' = threads

\* The embedder binds the guest's memory to the environment, once.
BindMemory ==
    /\ status = "running"
    /\ memory = "None"
    /\ Becomes([Self EXCEPT !.memory = "Some"])
    /\ UNCHANGED <<calls, last, twin, threads>>

GoDebug == \E x \in DebugArgs : Call("go_debug", <<x>>, CallGoDebug(Self, x))

ResetMemoryDataView ==
    \E x \in DebugArgs :
        Call("reset_memory_data_view", <<x>>, CallResetMemoryDataView(Self, x))

WasmExit ==
    \E a \in ExitArgs : Call("wasm_exit", a, CallWasmExit(Self, a[1], a[2]))

WasmWrite ==
    \E a \in WriteArgs :
        Call("wasm_write", a, CallWasmWrite(Self, a[1], a[2], a[3], a[4]))

Nanotime1 ==
    \E sp \in ClockFrames : Call("nanotime1", <<sp>>, CallNanotime1(Self, sp))

Walltime == \E sp \in Frames : Call("walltime", <<sp>>, CallWalltime(Self, sp))

Walltime1 == \E sp \in Frames : Call("walltime1", <<sp>>, CallWalltime1(Self, sp))

ScheduleTimeoutEvent ==
    \E sp \in Frames, delay \in Delays :
        Call("schedule_timeout_event", <<sp, delay>>,
             CallScheduleTimeoutEvent(Self, sp, delay))

ClearTimeoutEvent ==
    \E sp \in Frames, id \in TimerIds :
        Call("clear_timeout_event", <<sp, id>>, CallClearTimeoutEvent(Self, sp, id))

GetRandomData ==
    \E a \in FillArgs :
        Call("get_random_data", a, CallGetRandomData(Self, a[1], a[2], a[3]))

HostCall ==
    \/ GoDebug
    \/ ResetMemoryDataView
    \/ WasmExit
    \/ WasmWrite
    \/ Nanotime1
    \/ Walltime
    \/ Walltime1
    \/ ScheduleTimeoutEvent
    \/ ClearTimeoutEvent
    \/ GetRandomData

Next == BindMemory \/ HostCall

Spec == Init /\ [][Next]_vars

-----------------------------------------------------------------------------
(* Sessions far into a run.  The handlers are the same; only the state a   *)
(* behavior starts from differs: a state the session reaches after many    *)
(* host calls, with the memory long bound.                                 *)

\* 18446744073700000000 = 1844674407370 * 10_000_000, the greatest clock
\* value a u64 holds: the clock after 1844674407370 clock queries.
LateClock == <<0, 65, 110, 255, 255, 255, 255, 255>>

\* One clock query before LateClock.
InitLateClock ==
    /\ \E bld \in Builds :
          Holds([WasmEnv_default(bld, U64(1667000000)) EXCEPT
                    !.memory = "Some",
                    !.time = WrappingSub(LateClock, U64(10000000))])
    /\ calls = 0
    /\ last = NoCall
    /\ twin = WasmEnv_default(build, U64(1667000000))
    /\ threads = NoSites

SpecLateClock == InitLateClock /\ [][HostCall]_vars

\* After 2^32 - 2 schedule_timeout_event calls: the first one, with the
\* greatest delay, holds id 0 and is still pending; the timers after it
\* have fired and were popped by the event loop at the heap's other end.
InitLateIds ==
    /\ \E bld \in Builds :
          Holds([WasmEnv_default(bld, U64(1667000000)) EXCEPT
                    !.memory = "Some",
                    !.timeouts = [times       |-> <<[time |-> U64_MAX,
                                                       id   |-> U32(0)]>>,
                                  pending_ids |-> {U32(0)},
                                  next_id     |-> <<254, 255, 255, 255>>]])
    /\ calls = 0
    /\ last = NoCall
    /\ twin = WasmEnv_default(build, U64(1667000000))
    /\ threads = NoSites

SpecLateIds == InitLateIds /\ [][HostCall]_vars

-----------------------------------------------------------------------------
(* Two independent sessions on two hosts (their wall clocks differ) that   *)
(* are given the same host calls with the same arguments: the variables    *)
(* hold the first session and `twin` the second.                           *)

InitPair ==
    /\ \E bld \in Builds :
          /\ Holds(WasmEnv_default(bld, U64(1667000000)))
          /\ twin = WasmEnv_default(bld, U64(1667000777))
    /\ calls = 0
    /\ last = NoCall
    /\ threads = NoSites

\* Both sessions make the same host call.
PairCall(op, args, after, twinAfter) ==
    /\ status = "running"
    /\ twin.status = "running"
    /\ calls < MaxCalls
    /\ \E r \in {after} : Becomes(r)
    /\ calls' = calls + 1
    /\ last' = [op |-> op, args |-> args]
    /\ twin' = twinAfter
    /\ threads' = threads

PairBindMemory ==
    /\ status = "running"
    /\ twin.status = "running"
    /\ memory = "None"
    /\ twin.memory = "None"
    /\ Becomes([Self EXCEPT !.memory = "Some"])
    /\ twin' = [twin EXCEPT !.memory = "Some"]
    /\ UNCHANGED <<calls, last, threads>>

PairGoDebug ==
    \E x \in DebugArgs :
        PairCall("go_debug", <<x>>, CallGoDebug(Self, x), CallGoDebug(twin, x))

PairResetMemoryDataView ==
    \E x \in DebugArgs :
        PairCall("reset_memory_data_view", <<x>>,
                 CallResetMemoryDataView(Self, x), CallResetMemoryDataView(twin, x))

PairWasmExit ==
    \E a \in ExitArgs :
        PairCall("wasm_exit", a,
                 CallWasmExit(Self, a[1], a[2]), CallWasmExit(twin, a[1], a[2]))

PairWasmWrite ==
    \E a \in WriteArgs :
        PairCall("wasm_write", a,
                 CallWasmWrite(Self, a[1], a[2], a[3], a[4]),
                 CallWasmWrite(twin, a[1], a[2], a[3], a[4]))

PairNanotime1 ==
    \E sp \in ClockFrames :
        PairCall("nanotime1", <<sp>>, CallNanotime1(Self, sp), CallNanotime1(twin, sp))

PairWalltime ==
    \E sp \in Frames :
        PairCall("walltime", <<sp>>, CallWalltime(Self, sp), CallWalltime(twin, sp))

PairWalltime1 ==
    \E sp \in Frames :
        PairCall("walltime1", <<sp>>, CallWalltime1(Self, sp), CallWalltime1(twin, sp))

PairScheduleTimeoutEvent ==
    \E sp \in Frames, delay \in Delays :
        PairCall("schedule_timeout_event", <<sp, delay>>,
                 CallScheduleTimeoutEvent(Self, sp, delay),
                 CallScheduleTimeoutEvent(twin, sp, delay))

PairClearTimeoutEvent ==
    \E sp \in Frames, id \in TimerIds :
        PairCall("clear_timeout_event", <<sp, id>>,
                 CallClearTimeoutEvent(Self, sp, id),
                 CallClearTimeoutEvent(twin, sp, id))

PairGetRandomData ==
    \E a \in FillArgs :
        PairCall("get_random_data", a,
                 CallGetRandomData(Self, a[1], a[2], a[3]),
                 CallGetRandomData(twin, a[1], a[2], a[3]))

NextPair ==
    \/ PairBindMemory
    \/ PairGoDebug
    \/ PairResetMemoryDataView
    \/ PairWasmExit
    \/ PairWasmWrite
    \/ PairNanotime1
    \/ PairWalltime
    \/ PairWalltime1
    \/ PairScheduleTimeoutEvent
    \/ PairClearTimeoutEvent
    \/ PairGetRandomData

SpecPair == InitPair /\ [][NextPair]_vars

-----------------------------------------------------------------------------
(* Several call sites on one environment.  The WasmEnvArc is an           *)
(* Arc<Mutex<WasmEnv>>, so handlers called from different sites run        *)
(* against one environment and interleave.  Here a host call is the        *)
(* sequence of its steps: every `lock`, every drop of a guard, and every   *)
(* statement that touches the environment or the memory is a step of its   *)
(* own, and a `lock` step waits while any guard of the lock is alive.      *)

\* Host calls each call site makes.
MaxSiteCalls == 1

Sites == {1, 2}

\* A faulty variant of new_sans_env_code: the guard taken to clone the memory
\* handle stays alive after the statement.
new_sans_env_code_keeps_guard == <<"lock", "clone_memory">>

\* GoStack::new_sans_env: `env.lock().memory.clone().unwrap()`.  The guard is
\* a temporary of the statement and is dropped at its end.
new_sans_env_code == <<"lock", "clone_memory", "unlock">>

\* A faulty variant of GoStack_new_code: no guard is taken for the caller.
GoStack_new_code_without_guard == new_sans_env_code

\* GoStack::new: new_sans_env, then `env.lock()`, whose guard the caller
\* keeps until it returns.
GoStack_new_code == new_sans_env_code \o <<"lock">>

wasm_exit_code == new_sans_env_code \o <<"exit">>

wasm_write_code == new_sans_env_code \o <<"write">>

\* A faulty variant of nanotime1_code: the clock is advanced under a guard of
\* its own before the memory view is built.
nanotime1_code_advances_first ==
    <<"lock", "advance_time", "unlock">> \o GoStack_new_code \o <<"report_nanos", "unlock">>

nanotime1_code == GoStack_new_code \o <<"advance_time", "report_nanos", "unlock">>

walltime_code == GoStack_new_code \o <<"advance_time", "report_split32", "unlock">>

walltime1_code == GoStack_new_code \o <<"advance_time", "report_split64", "unlock">>

schedule_timeout_event_code ==
    GoStack_new_code \o <<"read_delay", "take_id", "bump_next_id", "push",
                          "insert", "write_id", "unlock">>

clear_timeout_event_code == GoStack_new_code \o <<"clear", "unlock">>

get_random_data_code == GoStack_new_code \o <<"fill", "unlock">>

\* The steps of the host function named op.
Code(op) ==
    CASE op = "wasm_exit"              -> wasm_exit_code
      [] op = "wasm_write"             -> wasm_write_code
      [] op = "nanotime1"              -> nanotime1_code
      [] op = "walltime"               -> walltime_code
      [] op = "walltime1"              -> walltime1_code
      [] op = "schedule_timeout_event" -> schedule_timeout_event_code
      [] op = "clear_timeout_event"    -> clear_timeout_event_code
      [] op = "get_random_data"        -> get_random_data_code
      [] OTHER                         -> <<>>

\* The locals of a host call in progress: the fire time and the id of
\* schedule_timeout_event.
NoLocals == [time |-> <<>>, id |-> <<>>]

\* A call site with no host call in progress: pc is the step its call is at
\* (0: none), n the calls it has started, hist what its calls returned.
IdleSite == [pc |-> 0, op |-> "none", args |-> <<>>, loc |-> NoLocals,
             n |-> 0, hist |-> <<>>]

\* Each call site has a frame of its own.
SiteFrame(t) == U32(64 * t)

\* The host calls a site makes, each with its arguments: the stack pointer,
\* then what the guest stores in the slots.
SiteCalls(t) ==
    IF t = 1
    THEN {[op |-> "nanotime1", args |-> <<SiteFrame(t)>>],
          [op |-> "walltime", args |-> <<SiteFrame(t)>>],
          [op |-> "schedule_timeout_event", args |-> <<SiteFrame(t), U64(5)>>],
          [op |-> "wasm_exit", args |-> <<SiteFrame(t), U32(3)>>],
          [op |-> "get_random_data", args |-> <<SiteFrame(t), Buffer, U64(6)>>]}
    ELSE {[op |-> "walltime1", args |-> <<SiteFrame(t)>>],
          [op |-> "schedule_timeout_event", args |-> <<SiteFrame(t), U64(5)>>],
          [op |-> "wasm_write", args |-> <<SiteFrame(t), U64(1), Buffer, U32(3)>>],
          [op |-> "clear_timeout_event", args |-> <<SiteFrame(t), U32(0)>>]}

InitSites ==
    /\ \E bld \in Builds : Holds(WasmEnv_default(bld, U64(1667000000)))
    /\ calls = 0
    /\ last = NoCall
    /\ twin = WasmEnv_default(build, U64(1667000000))
    /\ threads = [lock |-> 0, site |-> [t \in Sites |-> IdleSite]]

\* The guest at site t stores the arguments in its frame and calls.
SiteStart(t) ==
    /\ status = "running"
    /\ threads.site[t].pc = 0
    /\ threads.site[t].n < MaxSiteCalls
    /\ \E c \in SiteCalls(t) :
          /\ Becomes(GuestArgs(Self, c.args[1], 0, Tail(c.args)))
          /\ threads' = [threads EXCEPT !.site[t] =
                            [@ EXCEPT !.pc = 1, !.op = c.op, !.args = c.args,
                                      !.loc = NoLocals, !.n = @ + 1]]
          /\ last' = c
    /\ calls' = calls + 1
    /\ twin' = twin

\* The host call of site t is at the step named instr.
At(t, instr) ==
    /\ status = "running"
    /\ threads.site[t].pc > 0
    /\ threads.site[t].pc <= Len(Code(threads.site[t].op))
    /\ Code(threads.site[t].op)[threads.site[t].pc] = instr

\* Site t's stack pointer.
SiteSp(t) == threads.site[t].args[1]

\* A step of site t's call that takes the session to r and the call's locals
\* to loc.  If it panicked or returned an escape, the call is over and the
\* guards it held are dropped.
Advance(t, r, loc) ==
    /\ Becomes(r)
    /\ threads' =
           IF r.status = "running"
           THEN [threads EXCEPT !.site[t].pc = @ + 1, !.site[t].loc = loc]
           ELSE [threads EXCEPT !.site[t].pc = 0,
                                !.lock = IF @ = t THEN 0 ELSE @]
    /\ UNCHANGED <<calls, last, twin>>

\* Mutex::lock: waits until no guard is alive.
SiteLock(t) ==
    /\ At(t, "lock")
    /\ threads.lock = 0
    /\ threads' = [threads EXCEPT !.lock = t, !.site[t].pc = @ + 1]
    /\ Becomes(Self)
    /\ UNCHANGED <<calls, last, twin>>

\* `.memory.clone().unwrap()`.
SiteCloneMemory(t) ==
    /\ At(t, "clone_memory")
    /\ Advance(t, GoStack_new_sans_env(Self), threads.site[t].loc)

\* A guard of site t goes out of scope.
SiteUnlock(t) ==
    /\ At(t, "unlock")
    /\ threads' = [threads EXCEPT !.lock = IF @ = t THEN 0 ELSE @,
                                  !.site[t].pc = @ + 1]
    /\ Becomes(Self)
    /\ UNCHANGED <<calls, last, twin>>

SiteExit(t) ==
    /\ At(t, "exit")
    /\ Advance(t, wasm_exit(Self, SiteSp(t)), threads.site[t].loc)

SiteWrite(t) ==
    /\ At(t, "write")
    /\ Advance(t, wasm_write(Self, SiteSp(t)), threads.site[t].loc)

\* env.time += env.time_interval.
SiteAdvanceTime(t) ==
    /\ At(t, "advance_time")
    /\ Advance(t, advance_time(Self), threads.site[t].loc)

\* The writes of env.time to the frame, in the three clock queries.
SiteReport(t) ==
    /\ \/ /\ At(t, "report_nanos")
          /\ Advance(t, write_u64(Self, SiteSp(t), 0, time), threads.site[t].loc)
       \/ /\ At(t, "report_split32")
          /\ Advance(t, write_u32(write_u64(Self, SiteSp(t), 0, Div1e9(time)),
                                  SiteSp(t), 1, Truncate(Rem1e9(time), 4)),
                     threads.site[t].loc)
       \/ /\ At(t, "report_split64")
          /\ Advance(t, write_u64(write_u64(Self, SiteSp(t), 0, Div1e9(time)),
                                  SiteSp(t), 1, Rem1e9(time)),
                     threads.site[t].loc)

\* schedule_timeout_event: the delay in slot 0 becomes the fire time.
SiteReadDelay(t) ==
    /\ At(t, "read_delay")
    /\ LET delay == read_u64(Self, SiteSp(t), 0)
       IN  IF delay.ok
           THEN Advance(t, Self, [threads.site[t].loc EXCEPT
                                     !.time = fire_time(delay.val, time)])
           ELSE Advance(t, Panic(Self), threads.site[t].loc)

\* let id = timeouts.next_id.
SiteTakeId(t) ==
    /\ At(t, "take_id")
    /\ Advance(t, Self, [threads.site[t].loc EXCEPT !.id = timeouts.next_id])

\* timeouts.next_id += 1.
SiteBumpNextId(t) ==
    /\ At(t, "bump_next_id")
    /\ LET next == CheckedAdd(build, timeouts.next_id, U32(1))
       IN  IF next.ok
           THEN Advance(t, [Self EXCEPT !.timeouts.next_id = next.val],
                        threads.site[t].loc)
           ELSE Advance(t, Panic(Self), threads.site[t].loc)

\* timeouts.times.push(TimeoutInfo { time, id }).
SitePush(t) ==
    /\ At(t, "push")
    /\ Advance(t, [Self EXCEPT !.timeouts.times =
                      Append(@, [time |-> threads.site[t].loc.time,
                                 id   |-> threads.site[t].loc.id])],
               threads.site[t].loc)

\* timeouts.pending_ids.insert(id).
SiteInsert(t) ==
    /\ At(t, "insert")
    /\ Advance(t, [Self EXCEPT !.timeouts.pending_ids =
                      @ \cup {threads.site[t].loc.id}],
               threads.site[t].loc)

\* sp.write_u32(1, id).
SiteWriteId(t) ==
    /\ At(t, "write_id")
    /\ Advance(t, write_u32(Self, SiteSp(t), 1, threads.site[t].loc.id),
               threads.site[t].loc)

SiteClear(t) ==
    /\ At(t, "clear")
    /\ Advance(t, clear_timeout_event(Self, SiteSp(t)), threads.site[t].loc)

SiteFill(t) ==
    /\ At(t, "fill")
    /\ Advance(t, get_random_data(Self, SiteSp(t)), threads.site[t].loc)

\* What the guest finds in its frame when the call has returned.
SiteResult(t) ==
    LET op == threads.site[t].op
    IN  [op  |-> op,
         val |-> IF op \in {"nanotime1", "walltime", "walltime1"}
                 THEN ClockRead(Self, SiteSp(t), op)
                 ELSE IF op = "schedule_timeout_event"
                 THEN LoadBytes(data, SlotAddr(SiteSp(t), 1), 4)
                 ELSE <<>>]

\* The host function returns to the guest at site t.
SiteReturn(t) ==
    /\ status = "running"
    /\ threads.site[t].pc > 0
    /\ threads.site[t].pc = Len(Code(threads.site[t].op)) + 1
    /\ threads' = [threads EXCEPT !.site[t].pc = 0,
                                  !.site[t].hist = Append(@, SiteResult(t))]
    /\ Becomes(Self)
    /\ UNCHANGED <<calls, last, twin>>

\* A step of the host call in progress at site t.
SiteRun(t) ==
    \/ SiteLock(t)
    \/ SiteCloneMemory(t)
    \/ SiteUnlock(t)
    \/ SiteExit(t)
    \/ SiteWrite(t)
    \/ SiteAdvanceTime(t)
    \/ SiteReport(t)
    \/ SiteReadDelay(t)
    \/ SiteTakeId(t)
    \/ SiteBumpNextId(t)
    \/ SitePush(t)
    \/ SiteInsert(t)
    \/ SiteWriteId(t)
    \/ SiteClear(t)
    \/ SiteFill(t)
    \/ SiteReturn(t)

NextSites ==
    \/ BindMemory
    \/ \E t \in Sites : SiteStart(t)
    \/ \E t \in Sites : SiteRun(t)

SpecSites == InitSites /\ [][NextSites]_vars

\* The call in progress at site t can take its next step: the session is
\* running and the call is not waiting for a lock another guard holds.  This
\* is ENABLED <<SiteRun(t)>>_vars, state by state.
SiteRunnable(t) ==
    /\ status = "running"
    /\ threads.site[t].pc > 0
    /\ At(t, "lock") => threads.lock = 0

\* The scheduling of the threads: a thread waiting for the lock gets it
\* when it stays free (parking_lot::Mutex::lock returns), and a thread that
\* can run is not held back for ever (weak fairness of SiteRun(t), with its
\* enabling condition written out as SiteRunnable(t)).
FairSites ==
    /\ SpecSites
    /\ \A t \in Sites : WF_vars(SiteLock(t))
    /\ \A t \in Sites : <>[]SiteRunnable(t) => []<><<SiteRun(t)>>_vars

-----------------------------------------------------------------------------
(* The accessors of GoStack on their own: a handler holding a GoStack of   *)
(* frame `start` reads and writes slots, addresses and byte ranges of the   *)
(* bound memory.  `last` names the accessor and its arguments.             *)

\* Accessor calls per session.
MaxAccesses == 2

\* A frame whose slot 0 is the last cell of the memory, and the frame
\* 8 bytes below 2^32, whose slot 0 would lie at 2^32.
LastFrame == FromEnd(16)
TopFrame  == <<248, 255, 255, 255>>

AccessFrames == {GoodFrame, LastFrame, TopFrame}
AccessSlots  == {0, 1}
\* An address inside the memory, one 2 bytes before its end and the last u32.
AccessPtrs   == {U32(256), FromEnd(2), U32_MAX}

SlotReads  == {"read_u8", "read_u32", "read_u64"}
SlotWrites == {"write_u8", "write_u32", "write_u64"}
PtrReads   == {"read_u8_ptr", "read_u32_ptr", "read_u64_ptr"}
PtrWrites  == {"write_u8_ptr", "write_u32_ptr", "write_u64_ptr"}

\* The size in bytes of the cell an accessor reads or writes.
Width(op) ==
    IF op \in {"read_u8", "write_u8", "read_u8_ptr", "write_u8_ptr"} THEN 1
    ELSE IF op \in {"read_u32", "write_u32", "read_u32_ptr", "write_u32_ptr"} THEN 4
    ELSE 8

\* Values of each width (a u8 is a number, wider values are byte sequences).
Values(w) ==
    IF w = 1 THEN {0, 171}
    ELSE IF w = 4 THEN {<<1, 2, 3, 4>>, U32_MAX}
    ELSE {U64(0), <<1, 2, 3, 4, 5, 6, 7, 8>>}

\* Byte ranges: inside the memory, ending 1 byte past it, ending past 2^32,
\* and at a pointer that is no u32.
Slices ==
    {<<Buffer, 3>>, <<ZeroExtend(FromEnd(2), 8), 3>>,
     <<ZeroExtend(U32_MAX, 8), 3>>, <<<<0, 1, 0, 0, 1, 0, 0, 0>>, 3>>}

\* The bytes write_slice is given.
Source(n) == [i \in 1..n |-> 200 + i]

ReadSlot(op, s, start, arg) ==
    IF op = "read_u8" THEN read_u8(s, start, arg)
    ELSE IF op = "read_u32" THEN read_u32(s, start, arg)
    ELSE read_u64(s, start, arg)

WriteSlot(op, s, start, arg, x) ==
    IF op = "write_u8" THEN write_u8(s, start, arg, x)
    ELSE IF op = "write_u32" THEN write_u32(s, start, arg, x)
    ELSE write_u64(s, start, arg, x)

ReadPtr(op, s, ptr) ==
    IF op = "read_u8_ptr" THEN read_u8_ptr(s, ptr)
    ELSE IF op = "read_u32_ptr" THEN read_u32_ptr(s, ptr)
    ELSE read_u64_ptr(s, ptr)

WritePtr(op, s, ptr, x) ==
    IF op = "write_u8_ptr" THEN write_u8_ptr(s, ptr, x)
    ELSE IF op = "write_u32_ptr" THEN write_u32_ptr(s, ptr, x)
    ELSE write_u64_ptr(s, ptr, x)

\* A read that fails is a panic (unwrap on None, a slice index out of
\* range); one that succeeds leaves the session as it was.
AfterRead(s, r) == IF r.ok THEN s ELSE Panic(s)

InitAccess ==
    /\ \E bld \in Builds :
          Holds([WasmEnv_default(bld, U64(1667000000)) EXCEPT !.memory = "Some"])
    /\ calls = 0
    /\ last = NoCall
    /\ twin = WasmEnv_default(build, U64(1667000000))
    /\ threads = NoSites

\* The accessor named op is called with args and leaves the session `after`.
Access(op, args, after) ==
    /\ calls < MaxAccesses
    /\ Call(op, args, after)

AccessReadSlot ==
    \E op \in SlotReads, start \in AccessFrames, arg \in AccessSlots :
        Access(op, <<start, arg>>, AfterRead(Self, ReadSlot(op, Self, start, arg)))

AccessWriteSlot ==
    \E op \in SlotWrites, start \in AccessFrames, arg \in AccessSlots :
        \E x \in Values(Width(op)) :
            Access(op, <<start, arg, x>>, WriteSlot(op, Self, start, arg, x))

AccessReadPtr ==
    \E op \in PtrReads, ptr \in AccessPtrs :
        Access(op, <<ptr>>, AfterRead(Self, ReadPtr(op, Self, ptr)))

AccessWritePtr ==
    \E op \in PtrWrites, ptr \in AccessPtrs :
        \E x \in Values(Width(op)) :
            Access(op, <<ptr, x>>, WritePtr(op, Self, ptr, x))

AccessReadSlice ==
    \E sl \in Slices :
        Access("read_slice", <<sl[1], sl[2]>>,
               AfterRead(Self, read_slice(Self, sl[1], U64(sl[2]))))

AccessWriteSlice ==
    \E sl \in Slices :
        Access("write_slice", <<sl[1], sl[2]>>,
               write_slice(Self, sl[1], Source(sl[2])))

NextAccess ==
    \/ AccessReadSlot
    \/ AccessWriteSlot
    \/ AccessReadPtr
    \/ AccessWritePtr
    \/ AccessReadSlice
    \/ AccessWriteSlice

SpecAccess == InitAccess /\ [][NextAccess]_vars

-----------------------------------------------------------------------------
(* The properties.                                                         *)

ClockOps == {"nanotime1", "walltime", "walltime1"}

\* This step is a host call of the function named op.
Step(op) ==
    /\ calls' = calls + 1
    /\ last'.op = op

\* The last element of a non-empty sequence.
Last(seq) == seq[Len(seq)]

\* The smaller of two unsigned integers of one width.
MinBytes(a, b) == IF Less(b, a) THEN b ELSE a

\* min(MAX, min(MAX, d * 1_000_000) + T) with MAX = 2^64 - 1, computed
\* without overflow in 128 bits.
ReferenceFireTime(d, T) ==
    LET MAX  == ZeroExtend(U64_MAX, 16)
        prod == SubSeq(MulBytes(ZeroExtend(d, 16), 1000000, 0), 1, 16)
        sum  == SubSeq(AddBytes(MinBytes(MAX, prod), ZeroExtend(T, 16), 0), 1, 16)
    IN  Truncate(MinBytes(MAX, sum), 8)

\* The addresses ptr .. ptr + n - 1.
Range(ptr, n) == {PtrAdd(ptr, k) : k \in 0..(n - 1)}

\* C1: the value each clock query reports is the value the previous clock
\* query reported plus exactly time_interval, and the reported values never
\* decrease, however many queries the session has made.
C1_ReportedClockAdvancesExactly ==
    \A i \in 1..(Len(reported) - 1) :
        /\ AddBytes(reported[i], time_interval, 0) = reported[i + 1] \o <<0>>
        /\ ~Less(reported[i + 1], reported[i])

\* C2: a step that changes time or time_interval is a clock query
\* (nanotime1, walltime, walltime1); every other host call, and the binding
\* of the memory, leaves both unchanged.
C2_TimeChangesOnlyInClockQueries ==
    [][(time' # time \/ time_interval' # time_interval)
          => \E op \in ClockOps : Step(op)]_vars

\* C2: a clock query was answered, and two other host calls, the last one
\* a schedule_timeout_event, have left the clock where the query put it.
C2_Witness ==
    /\ status = "running"
    /\ calls = 3
    /\ reported = <<time>>
    /\ time = time_interval
    /\ last.op = "schedule_timeout_event"
    /\ Len(timeouts.times) = 2

\* C3: popping the heap until it is empty yields every entry once, in
\* ascending fire time, and entries of equal fire time in ascending id.
C3_PopOrderAscending ==
    LET popped == PopAll(timeouts.times)
    IN  /\ Len(popped) = Len(timeouts.times)
        /\ {popped[i] : i \in 1..Len(popped)}
               = {timeouts.times[i] : i \in 1..Len(popped)}
        /\ \A i, j \in 1..Len(popped) :
               i < j =>
                   \/ Less(popped[i].time, popped[j].time)
                   \/ /\ popped[i].time = popped[j].time
                      /\ Less(popped[i].id, popped[j].id)

\* C3: three timers are scheduled, two of them for the same fire time, and
\* the heap pops them in another order than they were pushed in.
C3_Witness ==
    /\ Len(timeouts.times) = 3
    /\ PopAll(timeouts.times) # timeouts.times
    /\ timeouts.times[1].time = timeouts.times[3].time
    /\ Less(timeouts.times[2].time, timeouts.times[1].time)

\* C4: a schedule_timeout_event call with delay d, at clock value T and
\* allocator value n, returns normally with n in slot 1, next_id = n + 1,
\* the one entry (fire time of d at T, n) added to the heap, n added to the
\* pending ids, and the clock left at T.
C4_ScheduleEffects ==
    [][Step("schedule_timeout_event") /\ memory = "Some" =>
          LET sp == last'.args[1]
              d  == last'.args[2]
              n  == timeouts.next_id
          IN  /\ status' = "running"
              /\ LoadBytes(data', SlotAddr(sp, 1), 4) = n
              /\ AddBytes(n, U32(1), 0) = timeouts'.next_id \o <<0>>
              /\ timeouts'.times =
                     Append(timeouts.times,
                            [time |-> ReferenceFireTime(d, time), id |-> n])
              /\ timeouts'.pending_ids = timeouts.pending_ids \cup {n}
              /\ time' = time]_vars

\* C5: every schedule_timeout_event call that returns leaves next_id
\* strictly greater than before, and the id it returns is the id of no entry
\* scheduled before it.
C5_IdsNeverReused ==
    [][Step("schedule_timeout_event") /\ status' = "running" =>
          /\ Less(timeouts.next_id, timeouts'.next_id)
          /\ \A i \in 1..Len(timeouts.times) :
                 timeouts.times[i].id # Last(timeouts'.times).id]_vars

\* C6: a clear_timeout_event call for a pending id returns normally without
\* an escape and without a warning, removes that id and no other from the
\* pending ids, and leaves the heap (which still holds the id's entry),
\* next_id, the clock and the generator as they were.
C6_ClearOfPendingId ==
    [][Step("clear_timeout_event") /\ memory = "Some"
          /\ last'.args[2] \in timeouts.pending_ids =>
          /\ status' = "running"
          /\ escape' = <<>>
          /\ timeouts'.pending_ids = timeouts.pending_ids \ {last'.args[2]}
          /\ timeouts'.times = timeouts.times
          /\ \E i \in 1..Len(timeouts'.times) :
                 timeouts'.times[i].id = last'.args[2]
          /\ timeouts'.next_id = timeouts.next_id
          /\ time' = time
          /\ time_interval' = time_interval
          /\ rng' = rng
          /\ stderr' = stderr]_vars

\* C6: of two pending timers the first was cleared: the second is still
\* pending and the heap still holds both entries.
C6_Witness ==
    /\ status = "running"
    /\ last.op = "clear_timeout_event"
    /\ last.args[2] = U32(0)
    /\ timeouts.pending_ids = {U32(1)}
    /\ Len(timeouts.times) = 2
    /\ stderr = <<>>

\* C7: a clear_timeout_event call for an id that is not pending returns
\* normally without an escape, writes one warning to stderr, and leaves the
\* pending ids, the heap, next_id, the clock and the generator as they were.
C7_ClearOfAbsentId ==
    [][Step("clear_timeout_event") /\ memory = "Some"
          /\ last'.args[2] \notin timeouts.pending_ids =>
          /\ status' = "running"
          /\ escape' = <<>>
          /\ timeouts' = timeouts
          /\ time' = time
          /\ time_interval' = time_interval
          /\ rng' = rng
          /\ stderr' = Append(stderr, [kind |-> "clear not pending",
                                       val  |-> last'.args[2]])]_vars

\* C7: the one timer was cleared twice: the second call found the id not
\* pending, warned once, and the session runs on.
C7_Witness ==
    /\ status = "running"
    /\ calls = 3
    /\ last.op = "clear_timeout_event"
    /\ last.args[2] = U32(0)
    /\ timeouts.pending_ids = {}
    /\ Len(timeouts.times) = 1
    /\ Len(stderr) = 1

\* C8: whatever the delay d and the clock value T, a schedule_timeout_event
\* call returns normally and the entry it stores has the fire time
\* min(MAX, min(MAX, d * 1_000_000) + T), MAX = 2^64 - 1.
C8_FireTimeSaturates ==
    [][Step("schedule_timeout_event") =>
          /\ status' = "running"
          /\ Len(timeouts'.times) = Len(timeouts.times) + 1
          /\ Last(timeouts'.times).time
                 = ReferenceFireTime(last'.args[2], time)]_vars

\* C8: with the clock at its last value below 2^64, a delay whose
\* nanoseconds still fit a u64 was scheduled, and the sum saturated.
C8_Witness ==
    /\ status = "running"
    /\ time = LateClock
    /\ last.op = "schedule_timeout_event"
    /\ last.args[2] = <<237, 181, 160, 247, 198, 16, 0, 0>>
    /\ Last(timeouts.times).time = U64_MAX

\* C9: a get_random_data call for the L bytes at p (inside the memory)
\* returns normally, consumes ceil(L / 4) generator outputs, and leaves in
\* byte k of the destination (k < L) byte k mod 4, least significant first,
\* of the output number k div 4 of those; every byte of the memory outside
\* the destination and outside the two argument slots is as it was.
C9_RandomFillLayout ==
    [][Step("get_random_data") /\ memory = "Some"
          /\ FitsU32(last'.args[2]) /\ FitsU32(last'.args[3])
          /\ InBounds(Truncate(last'.args[2], 4), Truncate(last'.args[3], 4)) =>
          LET sp == last'.args[1]
              p  == Truncate(last'.args[2], 4)
              L  == ToNat(Truncate(last'.args[3], 4))
          IN  /\ status' = "running"
              /\ rng' = rng + ((L + 3) \div 4)
              /\ \A k \in 0..(L - 1) :
                     Load(data', PtrAdd(p, k))
                         = Pcg32Stream[rng + (k \div 4) + 1][(k % 4) + 1]
              /\ \A a \in ((DOMAIN data) \cup (DOMAIN data'))
                              \ (Range(p, L) \cup Range(SlotAddr(sp, 0), 16)) :
                     Load(data', a) = Load(data, a)]_vars

\* C9: after an earlier fill of 6 bytes (two outputs), a fill of 9 bytes:
\* two full words and one trailing byte, from three further outputs.
C9_Witness ==
    /\ status = "running"
    /\ last.op = "get_random_data"
    /\ last.args[3] = U64(9)
    /\ rng = 5
    /\ LoadBytes(data, Truncate(last.args[2], 4), 9)
           = Pcg32Stream[3] \o Pcg32Stream[4] \o <<Pcg32Stream[5][1]>>

FrameInBounds(sp) == InBounds(sp, U32(32))

\* The arguments of the host call named op are in bounds: the memory is
\* bound, the frame lies inside it, and so does the buffer a byte-write or a
\* random-fill names.
ArgsInBounds(op, args) ==
    IF op \in {"go_debug", "reset_memory_data_view"} THEN TRUE
    ELSE /\ memory = "Some"
         /\ FrameInBounds(args[1])
         /\ op = "wasm_write" =>
                InBounds(Truncate(args[3], 4), args[4])
         /\ op = "get_random_data" =>
                /\ FitsU32(args[2])
                /\ FitsU32(args[3])
                /\ InBounds(Truncate(args[2], 4), Truncate(args[3], 4))

\* C11: a wasm_exit call on an in-bounds frame returns Exit(code), code the
\* u32 in slot 0 of its frame, and leaves the clock, the generator and the
\* timers as they were; every other host call yields no escape, and on
\* in-bounds arguments it returns normally.
C11_OnlyExitEscapes ==
    [][calls' = calls + 1 =>
          IF last'.op = "wasm_exit"
          THEN ArgsInBounds(last'.op, last'.args) =>
                   /\ status' = "exited"
                   /\ escape' = <<"Exit", LoadBytes(data', SlotAddr(last'.args[1], 0), 4)>>
                   /\ escape'[2] = last'.args[2]
                   /\ time' = time
                   /\ time_interval' = time_interval
                   /\ rng' = rng
                   /\ timeouts' = timeouts
          ELSE /\ escape' = <<>>
               /\ status' # "exited"
               /\ ArgsInBounds(last'.op, last'.args) => status' = "running"]_vars

\* The calls of the sites that have returned: <<site, position in hist>>.
Returned(ops) ==
    {e \in Sites \X (1..MaxSiteCalls) :
        /\ e[2] <= Len(threads.site[e[1]].hist)
        /\ threads.site[e[1]].hist[e[2]].op \in ops}

\* What the call e returned.
ValueOf(e) == threads.site[e[1]].hist[e[2]].val

\* No host call is in progress at any site.
Quiescent == \A t \in Sites : threads.site[t].pc = 0

\* C12: when the calls of all sites have returned, the N clock queries
\* among them have reported N distinct values, time_interval apart (the
\* values 1 .. N times time_interval), and the clock stands at N times
\* time_interval; the M timer-schedule calls have returned the M distinct ids
\* 0 .. M-1, the heap holds one entry for each, and each is pending unless a
\* timer-cancel call was made.
C12_HandlersAreAtomic ==
    (status = "running" /\ Quiescent) =>
        LET clock == Returned(ClockOps)
            timer == Returned({"schedule_timeout_event"})
            N     == Cardinality(clock)
            M     == Cardinality(timer)
            ids   == {ValueOf(e) : e \in timer}
        IN  /\ time = SubSeq(MulBytes(time_interval, N, 0), 1, 8)
            /\ {ValueOf(e) : e \in clock}
                   = {SubSeq(MulBytes(time_interval, k, 0), 1, 8) : k \in 1..N}
            /\ \A e, f \in clock : e # f => ValueOf(e) # ValueOf(f)
            /\ \A e, f \in timer : e # f => ValueOf(e) # ValueOf(f)
            /\ ids = {U32(k) : k \in 0..(M - 1)}
            /\ timeouts.next_id = U32(M)
            /\ Len(timeouts.times) = M
            /\ {timeouts.times[i].id : i \in 1..M} = ids
            /\ timeouts.pending_ids \subseteq ids
            /\ Returned({"clear_timeout_event"}) = {} => timeouts.pending_ids = ids

\* C12: the clock query at site 1 has returned the second reading while the
\* clock query at site 2, which took the first reading, is still in progress.
C12_Witness ==
    /\ status = "running"
    /\ threads.site[2].op = "walltime1"
    /\ threads.site[2].pc = Len(walltime1_code) + 1
    /\ ClockRead(Self, SiteSp(2), "walltime1") = time_interval
    /\ Len(threads.site[1].hist) = 1
    /\ threads.site[1].hist[1].op = "nanotime1"
    /\ threads.site[1].hist[1].val = SubSeq(MulBytes(time_interval, 2, 0), 1, 8)

\* C17: while the memory is not bound no step changes the clock, the
\* generator, the timers or the output streams; no host call gets past the
\* clone of the memory handle; and the call that reaches the clone panics
\* there, with the lock free afterwards.
C17_UnboundMemoryIsFatal ==
    [][(memory = "None" /\ memory' = "None") =>
          /\ time' = time
          /\ time_interval' = time_interval
          /\ rng' = rng
          /\ timeouts' = timeouts
          /\ stdout' = stdout
          /\ stderr' = stderr
          /\ escape' = escape
          /\ \A t \in Sites :
                 /\ threads'.site[t].pc <= 2
                 /\ (At(t, "clone_memory") /\ threads'.site[t] # threads.site[t]) =>
                        /\ status' = "panicked"
                        /\ threads'.lock = 0]_vars

\* C17: a timer-schedule call made before the memory was bound has
\* panicked, with nothing scheduled and the lock free.
C17_Witness ==
    /\ status = "panicked"
    /\ memory = "None"
    /\ last.op = "schedule_timeout_event"
    /\ timeouts = TimeoutState_default
    /\ threads.lock = 0

\* C20: no call is at a `lock` step while a guard of its own is alive; a
\* site whose call has returned, or has ended the session (wasm_exit's
\* escape, a panic), holds no guard; and every host call that has started
\* returns (or the session ends).
C20_NoHandlerBlocksForever ==
    /\ [](\A t \in Sites :
             /\ At(t, "lock") => threads.lock # t
             /\ threads.site[t].pc = 0 => threads.lock # t)
    /\ \A t \in Sites :
           (threads.site[t].pc > 0) ~>
               (threads.site[t].pc = 0 \/ status # "running")

\* C20: a call waits at its second `lock` step while the other site holds
\* the guard.
C20_Witness ==
    /\ At(1, "lock")
    /\ threads.site[1].pc = 4
    /\ threads.lock = 2
    /\ threads.site[2].op = "schedule_timeout_event"

\* seconds * 1_000_000_000 + remainder, exactly: 12 bytes, no wrap-around.
ExactJoin1e9(seconds, remainder) ==
    LET m1 == MulBytes(seconds, 1000, 0)
        m2 == MulBytes(m1, 1000, 0)
        m3 == MulBytes(m2, 1000, 0)
    IN  AddBytes(m3, ZeroExtend(remainder, 11), 0)

\* C16: a walltime or walltime1 call that returns leaves in slot 0 a u64
\* `seconds` and in slot 1 a `remainder` (four bytes written by walltime, the
\* four bytes above them untouched; eight bytes written by walltime1) with
\* seconds * 1_000_000_000 + remainder equal to the clock T after the call,
\* exactly, and remainder < 1_000_000_000.
C16_SplitClockIsExact ==
    [][\A op \in {"walltime", "walltime1"} :
          (Step(op) /\ status' = "running") =>
              LET sp        == last'.args[1]
                  w         == IF op = "walltime" THEN 4 ELSE 8
                  seconds   == LoadBytes(data', SlotAddr(sp, 0), 8)
                  remainder == LoadBytes(data', SlotAddr(sp, 1), w)
              IN  /\ ExactJoin1e9(seconds, remainder) = ZeroExtend(time', 12)
                  /\ Less(ZeroExtend(remainder, 8), U64(1000000000))
                  /\ op = "walltime" =>
                         LoadBytes(data', PtrAdd(SlotAddr(sp, 1), 4), 4)
                             = LoadBytes(data, PtrAdd(SlotAddr(sp, 1), 4), 4)]_vars

\* C16: a walltime call has returned at T = 18446744073700000000: the seconds
\* are 18446744073 and the remainder, 700000000, needs all of its 32 bits.
C16_Witness ==
    /\ status = "running"
    /\ last.op = "walltime"
    /\ time = LateClock
    /\ LoadBytes(data, SlotAddr(last.args[1], 0), 8) = <<9, 250, 130, 75, 4, 0, 0, 0>>
    /\ LoadBytes(data, SlotAddr(last.args[1], 1), 4) = U32(700000000)

\* The position of entry e in the order the heap h pops its entries.
PopPosition(h, e) ==
    LET popped == PopAll(h)
    IN  CHOOSE i \in 1..Len(popped) : popped[i] = e

\* C15: when two schedule_timeout_event calls in a row pass the same delay
\* and both return, the heap pops the entry of the first before the entry of
\* the second.  (`times` keeps its entries in the order they were pushed, so
\* the two entries are its last two.)
C15_EqualDelaysPopInScheduleOrder ==
    [][(/\ Step("schedule_timeout_event")
        /\ status' = "running"
        /\ last.op = "schedule_timeout_event"
        /\ last.args[2] = last'.args[2]) =>
          LET n == Len(timeouts'.times)
              A == timeouts'.times[n - 1]
              B == timeouts'.times[n]
          IN  /\ A # B
              /\ PopPosition(timeouts'.times, A) < PopPosition(timeouts'.times, B)]_vars

\* The entries of the heap that carry the id.
EntriesOf(id) == {i \in 1..Len(timeouts.times) : timeouts.times[i].id = id}

\* C19: every id in the live set (pending_ids) is smaller than next_id and
\* has exactly one entry in the heap.
C19_LiveIdsAreAllocatedOnce ==
    \A id \in timeouts.pending_ids :
        /\ Less(id, timeouts.next_id)
        /\ Cardinality(EntriesOf(id)) = 1

\* The rest of the timer-state invariant, for a session that starts with no
\* timers: the heap holds exactly one entry for each id below next_id.
HeapHoldsEveryAllocatedId ==
    /\ \A i \in 1..Len(timeouts.times) :
           /\ Less(timeouts.times[i].id, timeouts.next_id)
           /\ EntriesOf(timeouts.times[i].id) = {i}
    /\ U32(Len(timeouts.times)) = timeouts.next_id

\* start + (arg + 1) * 8 as a number: four bytes and the carry.
ExactSlotAddr(start, arg) == AddBytes(start, U32((arg + 1) * 8), 0)

\* The n bytes at the (five-byte) address lie inside the memory.
RangeInside(addr, n) ==
    /\ addr[5] = 0
    /\ InBounds(SubSeq(addr, 1, 4), U32(n))

\* The bytes an accessor is asked for lie inside the memory: the cell of slot
\* args[2] of frame args[1], the cell at address args[1], or the args[2]
\* bytes at the u64 pointer args[1].
AccessInside(op, args) ==
    IF op \in SlotReads \cup SlotWrites
    THEN RangeInside(ExactSlotAddr(args[1], args[2]), Width(op))
    ELSE IF op \in PtrReads \cup PtrWrites
    THEN RangeInside(ZeroExtend(args[1], 5), Width(op))
    ELSE /\ FitsU32(args[1])
         /\ RangeInside(ZeroExtend(Truncate(args[1], 4), 5), args[2])

\* C13: an accessor asked for bytes that are not all inside the memory
\* panics and leaves the memory as it was.
C13_OutOfBoundsIsFatal ==
    [][(calls' = calls + 1 /\ ~AccessInside(last'.op, last'.args)) =>
          /\ status' = "panicked"
          /\ data' = data]_vars

\* The read accessor of the width of a write accessor.
ReadOf(op) ==
    IF Width(op) = 1 THEN "read_u8"
    ELSE IF Width(op) = 4 THEN "read_u32" ELSE "read_u64"

\* C14: write_u8, write_u32 or write_u64 of x to a slot whose cell lies
\* inside the memory returns, the read of the same width from that slot then
\* returns x, and every read of another slot of the frame returns what it
\* returned before the write.
C14_SlotRoundTrip ==
    [][\A op \in SlotWrites :
          (Step(op) /\ AccessInside(op, last'.args)) =>
              LET start == last'.args[1]
                  arg   == last'.args[2]
                  x     == last'.args[3]
                  after == [Self EXCEPT !.data = data']
              IN  /\ status' = "running"
                  /\ ReadSlot(ReadOf(op), after, start, arg) = [ok |-> TRUE, val |-> x]
                  /\ \A other \in (0..3) \ {arg}, r \in SlotReads :
                         AccessInside(r, <<start, other>>) =>
                             ReadSlot(r, after, start, other)
                                 = ReadSlot(r, Self, start, other)]_vars

\* C14: slot 0 of a frame has been written as a u64 while slot 1 holds a
\* value written before; both read back.
C14_Witness ==
    /\ status = "running"
    /\ calls = 2
    /\ last.op = "write_u64"
    /\ last.args[1] = GoodFrame
    /\ last.args[2] = 0
    /\ read_u64(Self, last.args[1], 0) = [ok |-> TRUE, val |-> <<1, 2, 3, 4, 5, 6, 7, 8>>]
    /\ read_u32(Self, last.args[1], 1) = [ok |-> TRUE, val |-> U32_MAX]

\* C18: a slot accessor that returns has used the address
\* start + (arg + 1) * 8, which fits in 32 bits: a write has changed the
\* bytes of the cell at that address to the value and no other byte.
C18_SlotAddressIsExact ==
    [][\A op \in SlotReads \cup SlotWrites :
          (Step(op) /\ status' = "running") =>
              LET addr == ExactSlotAddr(last'.args[1], last'.args[2])
                  x    == IF op \in SlotWrites THEN last'.args[3] ELSE <<>>
              IN  /\ addr[5] = 0
                  /\ op \in SlotWrites =>
                         data' = StoreBytes(data, SubSeq(addr, 1, 4),
                                            IF Width(op) = 1 THEN <<x>> ELSE x)]_vars

=============================================================================
